---- MODULE Spec2Model ----
(***************************************************************************)
(* JSON / YAML codecs of the electra API objects of go-eth2-client:        *)
(*   BlindedBeaconBlockBody  (api/v1/electra/blindedbeaconblockbody_json)  *)
(*   SignedBeaconBlock       (signedbeaconblock_json)                      *)
(*   SignedBlockContents     (api/v1/electra/signedblockcontents_yaml)     *)
(*                                                                         *)
(* Texts are sequences of one-character strings, byte arrays are sequences *)
(* of numbers 0..255, Go pointers and slices are tagged records so that    *)
(* nil, an empty slice and an empty string stay distinct.                  *)
(***************************************************************************)
EXTENDS Integers, Sequences, FiniteSets, TLC

VARIABLES kind, text, given, obj, res, calls

vars == <<kind, text, given, obj, res, calls>>

-----------------------------------------------------------------------------
(* Bounds of the model *)

\* number of fields of a document (or object) that differ from the valid base
MaxDeviations == 2

-----------------------------------------------------------------------------
(* Program constants *)

SignatureLength == 96

GraffitiLength == 32

KZGCommitmentLength == 48

-----------------------------------------------------------------------------
(* Go values *)

Nil == [t |-> "nil"]

Ptr(x) == [t |-> "ptr", v |-> x]

Slice(s) == [t |-> "slice", v |-> s]

IsNil(x) == x.t = "nil"

\* len() of a slice; len(nil) = 0
SliceLen(x) == IF IsNil(x) THEN 0 ELSE Len(x.v)

\* a fixed array [n]byte filled with one byte
Filled(n, byte) == [i \in 1..n |-> byte]

\* copy(dst[:], src): copies min(len(dst), len(src)) bytes, keeps the rest of dst
Copy(dst, src) == [i \in 1..Len(dst) |-> IF i <= Len(src) THEN src[i] ELSE dst[i]]

-----------------------------------------------------------------------------
(* encoding/hex and the "%#x" verb *)

HexChars == <<"0", "1", "2", "3", "4", "5", "6", "7", "8", "9", "a", "b", "c", "d", "e", "f">>

\* the digits encoding/hex accepts, with their values (0-9, a-f, A-F)
HexValues ==
  [c \in {"0", "1", "2", "3", "4", "5", "6", "7", "8", "9"} |->
     CASE c = "0" -> 0 [] c = "1" -> 1 [] c = "2" -> 2 [] c = "3" -> 3 [] c = "4" -> 4
       [] c = "5" -> 5 [] c = "6" -> 6 [] c = "7" -> 7 [] c = "8" -> 8 [] c = "9" -> 9]
  @@ [c \in {"a", "A"} |-> 10] @@ [c \in {"b", "B"} |-> 11] @@ [c \in {"c", "C"} |-> 12]
  @@ [c \in {"d", "D"} |-> 13] @@ [c \in {"e", "E"} |-> 14] @@ [c \in {"f", "F"} |-> 15]

\* value of a hex digit, -1 for any other character (encoding/hex fromHexChar)
FromHexChar(c) == IF c \in DOMAIN HexValues THEN HexValues[c] ELSE -1

\* hex.DecodeString: an error on a non-hex character or an odd digit count
DecodeString(s) ==
  IF Len(s) % 2 = 1 \/ \E i \in 1..Len(s) : FromHexChar(s[i]) < 0
  THEN [ok |-> FALSE, bytes |-> <<>>]
  ELSE [ok |-> TRUE,
        bytes |-> [i \in 1..(Len(s) \div 2) |->
                     16 * FromHexChar(s[2 * i - 1]) + FromHexChar(s[2 * i])]]

HasPrefix(s, p) == Len(s) >= Len(p) /\ \A i \in 1..Len(p) : s[i] = p[i]

TrimPrefixNever(s, p) == s

\* strings.TrimPrefix
TrimPrefix(s, p) ==
  IF HasPrefix(s, p) THEN [i \in 1..(Len(s) - Len(p)) |-> s[i + Len(p)]] ELSE s

Prefix0x == <<"0", "x">>

\* the "%#X" verb: "0X" and uppercase digits
SprintfHexUpper(bytes) ==
  <<"0", "X">> \o [i \in 1..(2 * Len(bytes)) |->
     LET digit == IF i % 2 = 1 THEN bytes[(i + 1) \div 2] \div 16 ELSE bytes[i \div 2] % 16
     IN  IF digit < 10 THEN HexChars[digit + 1]
         ELSE <<"A", "B", "C", "D", "E", "F">>[digit - 9]]

\* fmt.Sprintf("%#x", bytes): "0x" and two lowercase digits per byte
SprintfHex(bytes) ==
  Prefix0x \o [i \in 1..(2 * Len(bytes)) |->
     IF i % 2 = 1 THEN HexChars[(bytes[(i + 1) \div 2] \div 16) + 1]
                  ELSE HexChars[(bytes[i \div 2] % 16) + 1]]

-----------------------------------------------------------------------------
(* JSON texts.  A document is malformed or an object; a key of an object   *)
(* is absent, null, a string, a nested object or an array.                 *)

Absent == [t |-> "absent"]

Null == [t |-> "null"]

Str(s) == [t |-> "str", v |-> s]

Obj(x) == [t |-> "obj", v |-> x]

Arr(s) == [t |-> "arr", v |-> s]

Malformed == [t |-> "malformed"]

Document(m) == [t |-> "object", m |-> m]

\* the nested document that the nested object's own codec rejects
BadNested == "bad"

\* json.Unmarshal into a pointer field: absent and null leave nil, a nested
\* object goes through the nested type's own UnmarshalJSON
JSONToPtr(j) ==
  CASE j.t \in {"absent", "null"} -> [ok |-> TRUE, v |-> Nil]
    [] j.t = "obj" /\ j.v # BadNested -> [ok |-> TRUE, v |-> Ptr(j.v)]
    [] OTHER -> [ok |-> FALSE, v |-> Nil]

\* json.Unmarshal into a string field: absent and null leave ""
JSONToString(j) ==
  CASE j.t \in {"absent", "null"} -> [ok |-> TRUE, v |-> <<>>]
    [] j.t = "str" -> [ok |-> TRUE, v |-> j.v]
    [] OTHER -> [ok |-> FALSE, v |-> <<>>]

\* json.Unmarshal into a []*T field: absent and null leave nil, [] is empty non-nil
JSONToPtrSlice(j) ==
  CASE j.t \in {"absent", "null"} -> [ok |-> TRUE, v |-> Nil]
    [] j.t = "arr" ->
         [ok |-> \A i \in 1..Len(j.v) : JSONToPtr(j.v[i]).ok,
          v |-> Slice([i \in 1..Len(j.v) |-> JSONToPtr(j.v[i]).v])]
    [] OTHER -> [ok |-> FALSE, v |-> Nil]

\* json.Unmarshal into a []string field
JSONToStringSlice(j) ==
  CASE j.t \in {"absent", "null"} -> [ok |-> TRUE, v |-> Nil]
    [] j.t = "arr" ->
         [ok |-> \A i \in 1..Len(j.v) : JSONToString(j.v[i]).ok,
          v |-> Slice([i \in 1..Len(j.v) |-> JSONToString(j.v[i]).v])]
    [] OTHER -> [ok |-> FALSE, v |-> Nil]

\* json.Marshal of a pointer field: nil is null
PtrToJSON(p) == IF IsNil(p) THEN Null ELSE Obj(p.v)

\* json.Marshal of a []*T field: a nil slice is null
PtrSliceToJSON(s) ==
  IF IsNil(s) THEN Null ELSE Arr([i \in 1..Len(s.v) |-> PtrToJSON(s.v[i])])

\* json.Marshal of a []string field
StringSliceToJSON(s) ==
  IF IsNil(s) THEN Null ELSE Arr([i \in 1..Len(s.v) |-> Str(s.v[i])])

-----------------------------------------------------------------------------
(* Errors *)

OK == [kind |-> "ok"]

InvalidJSON == [kind |-> "invalid JSON"]

InvalidYAML == [kind |-> "failed to unmarshal YAML"]

Missing(f) == [kind |-> "missing", field |-> f]

InvalidValue(f) == [kind |-> "invalid value", field |-> f]

IncorrectLength(f) == [kind |-> "incorrect length", field |-> f]

\* "<field> entry %d missing": the index is Go's, counted from 0
EntryMissing(f, i) == [kind |-> "entry missing", field |-> f, index |-> i]

\* what a method leaves behind: the receiver and the error it returns
Result(o, e) == [o |-> o, err |-> e]

\* the statements after an early return are not executed: the next step
\* runs only on a result without error
Returned(r) == r.err # OK

-----------------------------------------------------------------------------
(* SignedBeaconBlock: signedbeaconblock_json.go *)

\* the keys of signedBeaconBlockJSON in declaration order
signedBeaconBlockKeys == <<"message", "signature">>

\* json.Unmarshal(input, &data) with data a zero signedBeaconBlockJSON
signedBeaconBlockJSON(input) ==
  IF input.t # "object"
  THEN [ok |-> FALSE, data |-> [Message |-> Nil, Signature |-> <<>>]]
  ELSE [ok |-> JSONToPtr(input.m.message).ok /\ JSONToString(input.m.signature).ok,
        data |-> [Message |-> JSONToPtr(input.m.message).v,
                  Signature |-> JSONToString(input.m.signature).v]]

SignedBeaconBlock_MarshalJSON(s) ==
  Document([message |-> PtrToJSON(s.Message),
            signature |-> Str(SprintfHex(s.Signature))])

SignedBeaconBlock_unpackMessage(s, data) ==
  IF IsNil(data.Message)
  THEN Result(s, Missing("message"))
  ELSE Result([s EXCEPT !.Message = data.Message], OK)

SignedBeaconBlock_unpackSignatureAnyLength(s, data) ==
  IF data.Signature = <<>>
  THEN Result(s, Missing("signature"))
  ELSE LET signature == DecodeString(TrimPrefix(data.Signature, Prefix0x))
       IN  IF ~signature.ok
           THEN Result(s, InvalidValue("signature"))
           ELSE Result([s EXCEPT !.Signature = Copy(s.Signature, signature.bytes)], OK)

SignedBeaconBlock_unpackSignature(s, data) ==
  IF data.Signature = <<>>
  THEN Result(s, Missing("signature"))
  ELSE LET signature == DecodeString(TrimPrefix(data.Signature, Prefix0x))
       IN  IF ~signature.ok
           THEN Result(s, InvalidValue("signature"))
           ELSE IF Len(signature.bytes) # SignatureLength
           THEN Result(s, IncorrectLength("signature"))
           ELSE Result([s EXCEPT !.Signature = Copy(s.Signature, signature.bytes)], OK)

SignedBeaconBlock_unpack(s, data) ==
  LET r1 == SignedBeaconBlock_unpackMessage(s, data)
      r2 == IF Returned(r1) THEN r1 ELSE SignedBeaconBlock_unpackSignature(r1.o, data)
  IN  r2

SignedBeaconBlock_UnmarshalJSON(s, input) ==
  IF ~signedBeaconBlockJSON(input).ok
  THEN Result(s, InvalidJSON)
  ELSE SignedBeaconBlock_unpack(s, signedBeaconBlockJSON(input).data)

-----------------------------------------------------------------------------
(* BlindedBeaconBlockBody: api/v1/electra/blindedbeaconblockbody_json.go *)

Min(S) == CHOOSE x \in S : \A y \in S : x <= y

\* the keys of blindedBeaconBlockBodyJSON in declaration order
blindedBeaconBlockBodyKeys ==
  <<"randao_reveal", "eth1_data", "graffiti", "proposer_slashings", "attester_slashings",
    "attestations", "deposits", "voluntary_exits", "sync_aggregate",
    "execution_payload_header", "bls_to_execution_changes", "blob_kzg_commitments",
    "execution_requests">>

\* json.Unmarshal(input, &data) with data a zero blindedBeaconBlockBodyJSON
blindedBeaconBlockBodyJSON(input) ==
  IF input.t # "object"
  THEN [ok |-> FALSE, data |-> <<>>]
  ELSE LET m == input.m
       IN [ok |-> /\ JSONToString(m.randao_reveal).ok
                  /\ JSONToPtr(m.eth1_data).ok
                  /\ JSONToString(m.graffiti).ok
                  /\ JSONToPtrSlice(m.proposer_slashings).ok
                  /\ JSONToPtrSlice(m.attester_slashings).ok
                  /\ JSONToPtrSlice(m.attestations).ok
                  /\ JSONToPtrSlice(m.deposits).ok
                  /\ JSONToPtrSlice(m.voluntary_exits).ok
                  /\ JSONToPtr(m.sync_aggregate).ok
                  /\ JSONToPtr(m.execution_payload_header).ok
                  /\ JSONToPtrSlice(m.bls_to_execution_changes).ok
                  /\ JSONToStringSlice(m.blob_kzg_commitments).ok
                  /\ JSONToPtr(m.execution_requests).ok,
           data |-> [RANDAOReveal |-> JSONToString(m.randao_reveal).v,
                     ETH1Data |-> JSONToPtr(m.eth1_data).v,
                     Graffiti |-> JSONToString(m.graffiti).v,
                     ProposerSlashings |-> JSONToPtrSlice(m.proposer_slashings).v,
                     AttesterSlashings |-> JSONToPtrSlice(m.attester_slashings).v,
                     Attestations |-> JSONToPtrSlice(m.attestations).v,
                     Deposits |-> JSONToPtrSlice(m.deposits).v,
                     VoluntaryExits |-> JSONToPtrSlice(m.voluntary_exits).v,
                     SyncAggregate |-> JSONToPtr(m.sync_aggregate).v,
                     ExecutionPayloadHeader |-> JSONToPtr(m.execution_payload_header).v,
                     BLSToExecutionChanges |-> JSONToPtrSlice(m.bls_to_execution_changes).v,
                     BlobKZGCommitments |-> JSONToStringSlice(m.blob_kzg_commitments).v,
                     ExecutionRequests |-> JSONToPtr(m.execution_requests).v]]

\* blobKZGCommitments[i] = b.BlobKZGCommitments[i].String(), over make([]string, len)
BlobKZGCommitmentStrings(b) ==
  Slice([i \in 1..SliceLen(b.BlobKZGCommitments) |-> SprintfHex(b.BlobKZGCommitments.v[i])])

BlindedBeaconBlockBody_MarshalJSON(b) ==
  Document([randao_reveal |-> Str(SprintfHex(b.RANDAOReveal)),
            eth1_data |-> PtrToJSON(b.ETH1Data),
            graffiti |-> Str(SprintfHex(b.Graffiti)),
            proposer_slashings |-> PtrSliceToJSON(b.ProposerSlashings),
            attester_slashings |-> PtrSliceToJSON(b.AttesterSlashings),
            attestations |-> PtrSliceToJSON(b.Attestations),
            deposits |-> PtrSliceToJSON(b.Deposits),
            voluntary_exits |-> PtrSliceToJSON(b.VoluntaryExits),
            sync_aggregate |-> PtrToJSON(b.SyncAggregate),
            execution_payload_header |-> PtrToJSON(b.ExecutionPayloadHeader),
            bls_to_execution_changes |-> PtrSliceToJSON(b.BLSToExecutionChanges),
            blob_kzg_commitments |-> StringSliceToJSON(BlobKZGCommitmentStrings(b)),
            execution_requests |-> PtrToJSON(b.ExecutionRequests)])

\* the empty string is handed to the decoder like any other
unpackBytesNoEmptyCheck(b, str, goField, name, length) ==
  LET decoded == DecodeString(TrimPrefix(str, Prefix0x))
  IN  IF ~decoded.ok
      THEN Result(b, InvalidValue(name))
      ELSE IF Len(decoded.bytes) # length
      THEN Result(b, IncorrectLength(name))
      ELSE Result([b EXCEPT ![goField] = Copy(b[goField], decoded.bytes)], OK)

\* a hex string field decoded into a fixed byte array
unpackBytes(b, str, goField, name, length) ==
  IF str = <<>>
  THEN Result(b, Missing(name))
  ELSE LET decoded == DecodeString(TrimPrefix(str, Prefix0x))
       IN  IF ~decoded.ok
           THEN Result(b, InvalidValue(name))
           ELSE IF Len(decoded.bytes) # length
           THEN Result(b, IncorrectLength(name))
           ELSE Result([b EXCEPT ![goField] = Copy(b[goField], decoded.bytes)], OK)

\* a nested object field
unpackPtr(b, ptr, goField, name) ==
  IF IsNil(ptr)
  THEN Result(b, Missing(name))
  ELSE Result([b EXCEPT ![goField] = ptr], OK)

\* the entries are taken as they are
unpackEntriesUnchecked(b, entries, goField, name) ==
  Result([b EXCEPT ![goField] = entries], OK)

\* for i := range entries: the first nil entry is reported
unpackEntries(b, entries, goField, name) ==
  IF \E i \in 1..Len(entries.v) : IsNil(entries.v[i])
  THEN Result(b, EntryMissing(name, Min({i \in 1..Len(entries.v) : IsNil(entries.v[i])}) - 1))
  ELSE Result([b EXCEPT ![goField] = entries], OK)

\* a sequence field of nested objects
unpackPtrSlice(b, entries, goField, name) ==
  IF IsNil(entries)
  THEN Result(b, Missing(name))
  ELSE unpackEntries(b, entries, goField, name)

unpackRANDAOReveal(b, data) ==
  unpackBytes(b, data.RANDAOReveal, "RANDAOReveal", "randao_reveal", SignatureLength)

unpackETH1Data(b, data) == unpackPtr(b, data.ETH1Data, "ETH1Data", "eth1_data")

unpackGraffiti(b, data) ==
  unpackBytes(b, data.Graffiti, "Graffiti", "graffiti", GraffitiLength)

unpackProposerSlashings(b, data) ==
  unpackPtrSlice(b, data.ProposerSlashings, "ProposerSlashings", "proposer_slashings")

unpackAttesterSlashings(b, data) ==
  unpackPtrSlice(b, data.AttesterSlashings, "AttesterSlashings", "attester_slashings")

unpackAttestations(b, data) ==
  unpackPtrSlice(b, data.Attestations, "Attestations", "attestations")

unpackDeposits(b, data) == unpackPtrSlice(b, data.Deposits, "Deposits", "deposits")

unpackVoluntaryExits(b, data) ==
  unpackPtrSlice(b, data.VoluntaryExits, "VoluntaryExits", "voluntary_exits")

unpackSyncAggregate(b, data) ==
  unpackPtr(b, data.SyncAggregate, "SyncAggregate", "sync_aggregate")

unpackExecutionPayloadHeader(b, data) ==
  unpackPtr(b, data.ExecutionPayloadHeader, "ExecutionPayloadHeader", "execution_payload_header")

\* the key is treated like the other sequences
unpackBLSToExecutionChangesMandatory(b, data) ==
  unpackPtrSlice(b, data.BLSToExecutionChanges,
                 "BLSToExecutionChanges", "bls_to_execution_changes")

\* the field is left alone when the key is not given
unpackBLSToExecutionChangesNoDefault(b, data) ==
  IF IsNil(data.BLSToExecutionChanges)
  THEN Result(b, OK)
  ELSE unpackEntries(b, data.BLSToExecutionChanges,
                     "BLSToExecutionChanges", "bls_to_execution_changes")

\* nil is replaced by make([]*capella.SignedBLSToExecutionChange, 0)
unpackBLSToExecutionChanges(b, data) ==
  IF IsNil(data.BLSToExecutionChanges)
  THEN Result([b EXCEPT !.BLSToExecutionChanges = Slice(<<>>)], OK)
  ELSE unpackEntries(b, data.BLSToExecutionChanges,
                     "BLSToExecutionChanges", "bls_to_execution_changes")

\* one commitment string decoded: ok, or the kind of its failure
decodeCommitment(str) ==
  LET decoded == DecodeString(TrimPrefix(str, Prefix0x))
  IN  IF ~decoded.ok THEN [ok |-> FALSE, lengthOK |-> FALSE, bytes |-> <<>>]
      ELSE [ok |-> TRUE,
            lengthOK |-> Len(decoded.bytes) = KZGCommitmentLength,
            bytes |-> decoded.bytes]

\* The strings are checked for "" first; then the field is replaced by a
\* zeroed make([]deneb.KZGCommitment, n) and filled entry by entry, so a
\* failure at entry k leaves the entries before k decoded and the rest zero.
unpackBlobKZGCommitments(b, data) ==
  IF IsNil(data.BlobKZGCommitments)
  THEN Result(b, Missing("blob_kzg_commitments"))
  ELSE LET strs == data.BlobKZGCommitments.v
           n == Len(strs)
           dec == [i \in 1..n |-> decodeCommitment(strs[i])]
           bad == {i \in 1..n : ~dec[i].ok \/ ~dec[i].lengthOK}
           stop == IF bad = {} THEN n + 1 ELSE Min(bad)
           filled == Slice([i \in 1..n |->
                       IF i < stop
                       THEN Copy(Filled(KZGCommitmentLength, 0), dec[i].bytes)
                       ELSE Filled(KZGCommitmentLength, 0)])
       IN  IF \E i \in 1..n : strs[i] = <<>>
           THEN Result(b, EntryMissing("blob_kzg_commitments",
                                       Min({i \in 1..n : strs[i] = <<>>}) - 1))
           ELSE IF bad = {}
           THEN Result([b EXCEPT !.BlobKZGCommitments = filled], OK)
           ELSE IF ~dec[stop].ok
           THEN Result([b EXCEPT !.BlobKZGCommitments = filled],
                       InvalidValue("blob_kzg_commitments"))
           ELSE Result([b EXCEPT !.BlobKZGCommitments = filled],
                       IncorrectLength("blob_kzg_commitments"))

unpackExecutionRequests(b, data) ==
  unpackPtr(b, data.ExecutionRequests, "ExecutionRequests", "execution_requests")

\* the statement block of unpack that examines a key
unpackKey(b, data, key) ==
  CASE key = "randao_reveal" -> unpackRANDAOReveal(b, data)
    [] key = "eth1_data" -> unpackETH1Data(b, data)
    [] key = "graffiti" -> unpackGraffiti(b, data)
    [] key = "proposer_slashings" -> unpackProposerSlashings(b, data)
    [] key = "attester_slashings" -> unpackAttesterSlashings(b, data)
    [] key = "attestations" -> unpackAttestations(b, data)
    [] key = "deposits" -> unpackDeposits(b, data)
    [] key = "voluntary_exits" -> unpackVoluntaryExits(b, data)
    [] key = "sync_aggregate" -> unpackSyncAggregate(b, data)
    [] key = "execution_payload_header" -> unpackExecutionPayloadHeader(b, data)
    [] key = "bls_to_execution_changes" -> unpackBLSToExecutionChanges(b, data)
    [] key = "blob_kzg_commitments" -> unpackBlobKZGCommitments(b, data)
    [] key = "execution_requests" -> unpackExecutionRequests(b, data)

\* the blocks run one after the other until one of them returns
RECURSIVE unpackFrom(_, _, _, _)
unpackFrom(r, data, blocks, i) ==
  IF Returned(r) \/ i > Len(blocks)
  THEN r
  ELSE unpackFrom(unpackKey(r.o, data, blocks[i]), data, blocks, i + 1)

\* the hex strings first, then the nested objects, then the sequences
unpackByFieldKind(b, data) ==
  unpackFrom(Result(b, OK), data,
             <<"randao_reveal", "graffiti", "eth1_data", "sync_aggregate",
               "execution_payload_header", "execution_requests", "proposer_slashings",
               "attester_slashings", "attestations", "deposits", "voluntary_exits",
               "bls_to_execution_changes", "blob_kzg_commitments">>, 1)

\* the blocks in the order of the statements of unpack
BlindedBeaconBlockBody_unpack(b, data) ==
  unpackFrom(Result(b, OK), data,
             <<"randao_reveal", "eth1_data", "graffiti", "proposer_slashings",
               "attester_slashings", "attestations", "deposits", "voluntary_exits",
               "sync_aggregate", "execution_payload_header", "bls_to_execution_changes",
               "blob_kzg_commitments", "execution_requests">>, 1)

BlindedBeaconBlockBody_UnmarshalJSON(b, input) ==
  IF ~blindedBeaconBlockBodyJSON(input).ok
  THEN Result(b, InvalidJSON)
  ELSE BlindedBeaconBlockBody_unpack(b, blindedBeaconBlockBodyJSON(input).data)

-----------------------------------------------------------------------------
(* SignedBlockContents: api/v1/electra/signedblockcontents_yaml.go and the *)
(* JSON codec it delegates to                                              *)

KZGProofLength == 48

\* deneb.Blob is 131072 bytes; the model keeps the check and scales the length
BlobLength == 4

\* the wire shape signedBlockContentsJSON filled from a parsed document
signedBlockContentsWire(m) ==
  [ok |-> /\ JSONToPtr(m.signed_block).ok
          /\ JSONToStringSlice(m.kzg_proofs).ok
          /\ JSONToStringSlice(m.blobs).ok,
   data |-> [SignedBlock |-> JSONToPtr(m.signed_block).v,
             KZGProofs |-> JSONToStringSlice(m.kzg_proofs).v,
             Blobs |-> JSONToStringSlice(m.blobs).v]]

\* json.Unmarshal(input, &data) with data a zero signedBlockContentsJSON
signedBlockContentsJSON(input) ==
  IF input.t # "object" THEN [ok |-> FALSE, data |-> <<>>]
  ELSE signedBlockContentsWire(input.m)

\* a sequence field of hex strings decoded into fixed byte arrays
unpackHexSlice(s, strs, goField, name, length) ==
  IF IsNil(strs)
  THEN Result(s, Missing(name))
  ELSE LET decoded == [i \in 1..Len(strs.v) |->
                         DecodeString(TrimPrefix(strs.v[i], Prefix0x))]
       IN  IF \E i \in 1..Len(strs.v) : ~decoded[i].ok
           THEN Result(s, InvalidValue(name))
           ELSE IF \E i \in 1..Len(strs.v) : Len(decoded[i].bytes) # length
           THEN Result(s, IncorrectLength(name))
           ELSE Result([s EXCEPT ![goField] =
                          Slice([i \in 1..Len(strs.v) |-> decoded[i].bytes])], OK)

unpackSignedBlock(s, data) == unpackPtr(s, data.SignedBlock, "SignedBlock", "signed_block")

unpackKZGProofs(s, data) ==
  unpackHexSlice(s, data.KZGProofs, "KZGProofs", "kzg_proofs", KZGProofLength)

unpackBlobs(s, data) == unpackHexSlice(s, data.Blobs, "Blobs", "blobs", BlobLength)

SignedBlockContents_unpack(s, data) ==
  LET r1 == unpackSignedBlock(s, data)
      r2 == IF Returned(r1) THEN r1 ELSE unpackKZGProofs(r1.o, data)
      r3 == IF Returned(r2) THEN r2 ELSE unpackBlobs(r2.o, data)
  IN  r3

SignedBlockContents_UnmarshalJSON(s, input) ==
  IF ~signedBlockContentsJSON(input).ok
  THEN Result(s, InvalidJSON)
  ELSE SignedBlockContents_unpack(s, signedBlockContentsJSON(input).data)

\* yaml.Unmarshal(input, &unmarshaled) with unmarshaled a zero signedBlockContentsJSON
yamlUnmarshal(input) ==
  IF input.t # "object" THEN [ok |-> FALSE, data |-> <<>>]
  ELSE signedBlockContentsWire(input.m)

\* json.Marshal(unmarshaled): every key of the wire shape is written
jsonMarshal(unmarshaled) ==
  Document([signed_block |-> PtrToJSON(unmarshaled.SignedBlock),
            kzg_proofs |-> StringSliceToJSON(unmarshaled.KZGProofs),
            blobs |-> StringSliceToJSON(unmarshaled.Blobs)])

\* what a call leaves behind, with the codec methods it entered
Traced(r, methods) == [o |-> r.o, err |-> r.err, calls |-> methods]

\* the YAML text itself is handed to the JSON codec, which cannot parse it
UnmarshalYAMLPassingInput(s, input) ==
  IF ~yamlUnmarshal(input).ok
  THEN Traced(Result(s, InvalidYAML), <<"UnmarshalYAML">>)
  ELSE Traced(SignedBlockContents_UnmarshalJSON(s, Malformed),
              <<"UnmarshalYAML", "UnmarshalJSON">>)

SignedBlockContents_UnmarshalYAML(s, input) ==
  IF ~yamlUnmarshal(input).ok
  THEN Traced(Result(s, InvalidYAML), <<"UnmarshalYAML">>)
  ELSE Traced(SignedBlockContents_UnmarshalJSON(s, jsonMarshal(yamlUnmarshal(input).data)),
              <<"UnmarshalYAML", "UnmarshalJSON">>)

-----------------------------------------------------------------------------
(* Inputs: documents and objects that differ from a valid base in at most  *)
(* MaxDeviations fields.                                                   *)

\* n bytes written as the two digits hi lo each
Digits(n, hi, lo) == [i \in 1..(2 * n) |-> IF i % 2 = 1 THEN hi ELSE lo]

\* n bytes that differ from position to position
Pattern(n, seed) == [i \in 1..n |-> (seed + 37 * i) % 256]

Prefix0X == <<"0", "X">>

HexBase(n) == Str(Prefix0x \o Digits(n, "a", "b"))

\* the other values a hex string key of n bytes is given
HexAlternatives(n) ==
  << Str(Digits(n, "a", "b")),
     Str(Prefix0X \o Digits(n, "a", "b")),
     Str(Prefix0x \o Digits(n, "C", "d")),
     Str(Prefix0x \o Digits(n - 1, "a", "b")),
     Str(Prefix0x \o Digits(n + 1, "a", "b")),
     Str(Prefix0x \o Tail(Digits(n, "a", "b"))),
     Str(Prefix0x \o Digits(n - 1, "a", "b") \o <<"a", "g">>),
     Str(<<>>),
     Str(Prefix0x),
     Null,
     Absent >>

PtrBase == Obj("A")

PtrAlternatives == << Absent, Null, Obj("B"), Obj(BadNested) >>

ArrBase == Arr(<<Obj("A"), Obj("B")>>)

NullFirst == Arr(<<Null>>)

NullSecond == Arr(<<Obj("A"), Null, Null>>)

Reordered == Arr(<<Obj("B"), Obj("A"), Obj("C")>>)

CommitmentsBase == Arr(<<HexBase(KZGCommitmentLength), HexAlternatives(KZGCommitmentLength)[3]>>)

CommitmentsAlternatives ==
  LET base == HexBase(KZGCommitmentLength)
      alt == HexAlternatives(KZGCommitmentLength)
  IN << Absent,
        Arr(<<>>),
        Arr(<<alt[7], Str(<<>>)>>),
        Arr(<<alt[1], alt[3]>>),
        Arr(<<base, alt[2]>>),
        Arr(<<base, alt[5], alt[7]>>) >>

\* some of the values of a sequence
Pick(s, indices) == [i \in 1..Len(indices) |-> s[indices[i]]]

Max(S) == CHOOSE x \in S : \A y \in S : x >= y

\* the ways to deviate from a base record in at most k fields: a selection
\* maps each deviating field to the number of one of its alternatives
Selections(alternatives, k) ==
  LET F == DOMAIN alternatives
      most == Max({Len(alternatives[f]) : f \in F})
  IN UNION { {g \in [S -> 1..most] : \A f \in S : g[f] <= Len(alternatives[f])} :
             S \in {T \in SUBSET F : Cardinality(T) <= k} }

\* the record that agrees with base except on the selected fields
Deviating(base, alternatives, g) ==
  [f \in DOMAIN base |-> IF f \in DOMAIN g THEN alternatives[f][g[f]] ELSE base[f]]

BodyDocBase ==
  [randao_reveal |-> HexBase(SignatureLength),
   eth1_data |-> PtrBase,
   graffiti |-> HexBase(GraffitiLength),
   proposer_slashings |-> ArrBase,
   attester_slashings |-> ArrBase,
   attestations |-> ArrBase,
   deposits |-> ArrBase,
   voluntary_exits |-> ArrBase,
   sync_aggregate |-> PtrBase,
   execution_payload_header |-> PtrBase,
   bls_to_execution_changes |-> ArrBase,
   blob_kzg_commitments |-> CommitmentsBase,
   execution_requests |-> PtrBase]

\* The unpack code of the body repeats one block per field kind, so each key
\* is given a selection of the values of its kind; the signature of a signed
\* block is given all of them.
BodyDocAlternatives ==
  [randao_reveal |-> Pick(HexAlternatives(SignatureLength), <<1, 2, 5, 8, 11>>),
   eth1_data |-> <<Absent, Null>>,
   graffiti |-> Pick(HexAlternatives(GraffitiLength), <<3, 4, 7, 10>>),
   proposer_slashings |-> <<Absent, Arr(<<>>), NullFirst>>,
   attester_slashings |-> <<Null, NullSecond>>,
   attestations |-> <<Absent, Reordered>>,
   deposits |-> <<Null, NullFirst, Arr(<<>>)>>,
   voluntary_exits |-> <<Absent, NullSecond>>,
   sync_aggregate |-> <<Null, Obj(BadNested)>>,
   execution_payload_header |-> <<Absent, Obj("B")>>,
   bls_to_execution_changes |-> <<Absent, Null, Arr(<<>>), NullSecond>>,
   blob_kzg_commitments |-> CommitmentsAlternatives,
   execution_requests |-> <<Null, Absent>>]

BlockDocBase == [message |-> PtrBase, signature |-> HexBase(SignatureLength)]

BlockDocAlternatives ==
  [message |-> PtrAlternatives, signature |-> HexAlternatives(SignatureLength)]

ProofsAlternatives ==
  << Absent, Null, Arr(<<>>),
     Arr(<<HexAlternatives(KZGProofLength)[1]>>),
     Arr(<<HexAlternatives(KZGProofLength)[4]>>),
     Arr(<<HexAlternatives(KZGProofLength)[7]>>) >>

BlobsAlternatives ==
  << Absent, Null, Arr(<<>>),
     Arr(<<HexAlternatives(BlobLength)[3], HexBase(BlobLength)>>),
     Arr(<<HexAlternatives(BlobLength)[5]>>),
     Arr(<<HexAlternatives(BlobLength)[6]>>) >>

ContentsDocBase ==
  [signed_block |-> PtrBase,
   kzg_proofs |-> Arr(<<HexBase(KZGProofLength)>>),
   blobs |-> Arr(<<HexBase(BlobLength)>>)]

ContentsDocAlternatives ==
  [signed_block |-> PtrAlternatives,
   kzg_proofs |-> ProofsAlternatives,
   blobs |-> BlobsAlternatives]

Kinds == {"BlindedBeaconBlockBody", "SignedBeaconBlock", "SignedBlockContents"}

DocBase(k) ==
  CASE k = "BlindedBeaconBlockBody" -> BodyDocBase
    [] k = "SignedBeaconBlock" -> BlockDocBase
    [] OTHER -> ContentsDocBase

DocAlternatives(k) ==
  CASE k = "BlindedBeaconBlockBody" -> BodyDocAlternatives
    [] k = "SignedBeaconBlock" -> BlockDocAlternatives
    [] OTHER -> ContentsDocAlternatives

SliceBase == Slice(<<Ptr("A"), Ptr("B")>>)

BytesAlternatives(n) == << Filled(n, 0), Filled(n, 255) >>

BodyBase ==
  [RANDAOReveal |-> Pattern(SignatureLength, 1),
   ETH1Data |-> Ptr("A"),
   Graffiti |-> Pattern(GraffitiLength, 2),
   ProposerSlashings |-> SliceBase,
   AttesterSlashings |-> SliceBase,
   Attestations |-> SliceBase,
   Deposits |-> SliceBase,
   VoluntaryExits |-> SliceBase,
   SyncAggregate |-> Ptr("A"),
   ExecutionPayloadHeader |-> Ptr("A"),
   BLSToExecutionChanges |-> SliceBase,
   BlobKZGCommitments |-> Slice(<<Pattern(KZGCommitmentLength, 3),
                                  Pattern(KZGCommitmentLength, 4)>>),
   ExecutionRequests |-> Ptr("A")]

BodyAlternatives ==
  [RANDAOReveal |-> BytesAlternatives(SignatureLength),
   ETH1Data |-> <<Nil, Ptr("B")>>,
   Graffiti |-> BytesAlternatives(GraffitiLength),
   ProposerSlashings |-> <<Nil, Slice(<<>>)>>,
   AttesterSlashings |-> <<Slice(<<Ptr("B"), Ptr("A"), Ptr("C")>>), Slice(<<Ptr("A"), Nil>>)>>,
   Attestations |-> <<Slice(<<>>), Slice(<<Ptr("B"), Ptr("A"), Ptr("C")>>)>>,
   Deposits |-> <<Nil, Slice(<<Ptr("C")>>)>>,
   VoluntaryExits |-> <<Slice(<<>>), Slice(<<Nil>>)>>,
   SyncAggregate |-> <<Nil, Ptr("B")>>,
   ExecutionPayloadHeader |-> <<Nil, Ptr("B")>>,
   BLSToExecutionChanges |-> <<Nil, Slice(<<>>)>>,
   BlobKZGCommitments |-> <<Nil, Slice(<<>>), Slice(<<Filled(KZGCommitmentLength, 0)>>)>>,
   ExecutionRequests |-> <<Nil, Ptr("B")>>]

BlockBase == [Message |-> Ptr("A"), Signature |-> Pattern(SignatureLength, 5)]

BlockAlternatives ==
  [Message |-> <<Nil, Ptr("B")>>, Signature |-> BytesAlternatives(SignatureLength)]

ObjectBase(k) == IF k = "BlindedBeaconBlockBody" THEN BodyBase ELSE BlockBase

ObjectAlternatives(k) ==
  IF k = "BlindedBeaconBlockBody" THEN BodyAlternatives ELSE BlockAlternatives

Receivers == {1, 2}

\* receiver 1 is a zero value (var x T), receiver 2 an object decoded earlier
Priors(k) ==
  CASE k = "BlindedBeaconBlockBody" ->
         <<[RANDAOReveal |-> Filled(SignatureLength, 0),
            ETH1Data |-> Nil,
            Graffiti |-> Filled(GraffitiLength, 0),
            ProposerSlashings |-> Nil,
            AttesterSlashings |-> Nil,
            Attestations |-> Nil,
            Deposits |-> Nil,
            VoluntaryExits |-> Nil,
            SyncAggregate |-> Nil,
            ExecutionPayloadHeader |-> Nil,
            BLSToExecutionChanges |-> Nil,
            BlobKZGCommitments |-> Nil,
            ExecutionRequests |-> Nil],
           [RANDAOReveal |-> Filled(SignatureLength, 17),
            ETH1Data |-> Ptr("old"),
            Graffiti |-> Filled(GraffitiLength, 17),
            ProposerSlashings |-> Slice(<<Ptr("old")>>),
            AttesterSlashings |-> Slice(<<Ptr("old")>>),
            Attestations |-> Slice(<<Ptr("old")>>),
            Deposits |-> Slice(<<Ptr("old")>>),
            VoluntaryExits |-> Slice(<<Ptr("old")>>),
            SyncAggregate |-> Ptr("old"),
            ExecutionPayloadHeader |-> Ptr("old"),
            BLSToExecutionChanges |-> Slice(<<Ptr("old")>>),
            BlobKZGCommitments |-> Slice(<<Filled(KZGCommitmentLength, 17)>>),
            ExecutionRequests |-> Ptr("old")]>>
    [] k = "SignedBeaconBlock" ->
         <<[Message |-> Nil, Signature |-> Filled(SignatureLength, 0)],
           [Message |-> Ptr("old"), Signature |-> Filled(SignatureLength, 17)]>>
    [] OTHER ->
         <<[SignedBlock |-> Nil, KZGProofs |-> Nil, Blobs |-> Nil],
           [SignedBlock |-> Ptr("old"),
            KZGProofs |-> Slice(<<Filled(KZGProofLength, 17)>>),
            Blobs |-> Slice(<<Filled(BlobLength, 17)>>)]>>

-----------------------------------------------------------------------------
(* The state machine: a text arrives from outside or is produced by        *)
(* MarshalJSON, then each receiver decodes it once.                        *)

NoText == [format |-> "none"]

None == [t |-> "none"]

NotCalled == [kind |-> "not called"]

Init ==
  /\ kind \in Kinds
  /\ text = NoText
  /\ given = None
  /\ obj = Priors(kind)
  /\ res = [r \in Receivers |-> NotCalled]
  /\ calls = [r \in Receivers |-> <<>>]

\* a JSON text arrives from outside: a document, or a text that is no JSON
ReceiveJSON ==
  /\ text = NoText
  /\ \/ \E g \in Selections(DocAlternatives(kind), MaxDeviations) :
          text' = [format |-> "json",
                   doc |-> Document(Deviating(DocBase(kind), DocAlternatives(kind), g))]
     \/ text' = [format |-> "json", doc |-> Malformed]
  /\ UNCHANGED <<kind, given, obj, res, calls>>

\* a YAML text arrives from outside
ReceiveYAML ==
  /\ text = NoText
  /\ kind = "SignedBlockContents"
  /\ \/ \E g \in Selections(DocAlternatives(kind), MaxDeviations) :
          text' = [format |-> "yaml",
                   doc |-> Document(Deviating(DocBase(kind), DocAlternatives(kind), g))]
     \/ text' = [format |-> "yaml", doc |-> Malformed]
  /\ UNCHANGED <<kind, given, obj, res, calls>>

MarshalJSONOf(k, o) ==
  IF k = "BlindedBeaconBlockBody" THEN BlindedBeaconBlockBody_MarshalJSON(o)
  ELSE SignedBeaconBlock_MarshalJSON(o)

\* application code marshals an object it constructed
MarshalJSON ==
  /\ text = NoText
  /\ kind # "SignedBlockContents"
  /\ \E g \in Selections(ObjectAlternatives(kind), MaxDeviations) :
       LET o == Deviating(ObjectBase(kind), ObjectAlternatives(kind), g)
       IN  /\ text' = [format |-> "json", doc |-> MarshalJSONOf(kind, o)]
           /\ given' = [t |-> "object", o |-> o]
  /\ UNCHANGED <<kind, obj, res, calls>>

UnmarshalJSONOf(k, o, input) ==
  CASE k = "BlindedBeaconBlockBody" -> BlindedBeaconBlockBody_UnmarshalJSON(o, input)
    [] k = "SignedBeaconBlock" -> SignedBeaconBlock_UnmarshalJSON(o, input)
    [] OTHER -> SignedBlockContents_UnmarshalJSON(o, input)

UnmarshalJSON(r) ==
  /\ text.format = "json"
  /\ res[r] = NotCalled
  /\ LET out == UnmarshalJSONOf(kind, obj[r], text.doc)
     IN  /\ obj' = [obj EXCEPT ![r] = out.o]
         /\ res' = [res EXCEPT ![r] = out.err]
  /\ calls' = [calls EXCEPT ![r] = <<"UnmarshalJSON">>]
  /\ UNCHANGED <<kind, text, given>>

UnmarshalYAML(r) ==
  /\ text.format = "yaml"
  /\ res[r] = NotCalled
  /\ LET out == SignedBlockContents_UnmarshalYAML(obj[r], text.doc)
     IN  /\ obj' = [obj EXCEPT ![r] = out.o]
         /\ res' = [res EXCEPT ![r] = out.err]
         /\ calls' = [calls EXCEPT ![r] = out.calls]
  /\ UNCHANGED <<kind, text, given>>

Next ==
  \/ ReceiveJSON
  \/ ReceiveYAML
  \/ MarshalJSON
  \/ \E r \in Receivers : UnmarshalJSON(r)
  \/ \E r \in Receivers : UnmarshalYAML(r)

Spec == Init /\ [][Next]_vars

-----------------------------------------------------------------------------
(* The wire contract, stated on documents: what each key must hold.        *)

Keys == IF kind = "BlindedBeaconBlockBody" THEN blindedBeaconBlockBodyKeys
        ELSE signedBeaconBlockKeys

\* the field of the object a key is decoded into
GoField ==
  [randao_reveal |-> "RANDAOReveal", eth1_data |-> "ETH1Data", graffiti |-> "Graffiti",
   proposer_slashings |-> "ProposerSlashings", attester_slashings |-> "AttesterSlashings",
   attestations |-> "Attestations", deposits |-> "Deposits",
   voluntary_exits |-> "VoluntaryExits", sync_aggregate |-> "SyncAggregate",
   execution_payload_header |-> "ExecutionPayloadHeader",
   bls_to_execution_changes |-> "BLSToExecutionChanges",
   blob_kzg_commitments |-> "BlobKZGCommitments",
   execution_requests |-> "ExecutionRequests",
   message |-> "Message", signature |-> "Signature"]

HexKeys == {"randao_reveal", "graffiti", "signature"}

ObjectKeys ==
  {"eth1_data", "sync_aggregate", "execution_payload_header", "execution_requests", "message"}

SequenceKeys ==
  {"proposer_slashings", "attester_slashings", "attestations", "deposits", "voluntary_exits"}

OptionalKey == "bls_to_execution_changes"

CommitmentsKey == "blob_kzg_commitments"

\* the mandated length in bytes of the hex strings of a key
Mandated(key) ==
  CASE key \in {"randao_reveal", "signature"} -> SignatureLength
    [] key = "graffiti" -> GraffitiLength
    [] OTHER -> KZGCommitmentLength

LowerDigits == <<"0", "1", "2", "3", "4", "5", "6", "7", "8", "9", "a", "b", "c", "d", "e", "f">>

UpperDigits == <<"0", "1", "2", "3", "4", "5", "6", "7", "8", "9", "A", "B", "C", "D", "E", "F">>

DigitTable ==
  [c \in {LowerDigits[i] : i \in 1..16} \cup {UpperDigits[i] : i \in 1..16} |->
     (CHOOSE i \in 1..16 : c = LowerDigits[i] \/ c = UpperDigits[i]) - 1]

\* s without its two-character prefix, when it starts with one of prefixes
WithoutPrefix(s, prefixes) ==
  IF Len(s) >= 2 /\ <<s[1], s[2]>> \in prefixes THEN SubSeq(s, 3, Len(s)) ELSE s

\* h is the hex text of exactly n bytes
HexOfLength(h, n) == Len(h) = 2 * n /\ \A i \in 1..Len(h) : h[i] \in DOMAIN DigitTable

\* the bytes a hex text stands for
BytesOf(h) ==
  [i \in 1..(Len(h) \div 2) |-> 16 * DigitTable[h[2 * i - 1]] + DigitTable[h[2 * i]]]

WellFormedHex(j, n, prefixes) ==
  j.t = "str" /\ HexOfLength(WithoutPrefix(j.v, prefixes), n)

NoNullEntry(j) == j.t = "arr" /\ \A i \in 1..Len(j.v) : j.v[i].t = "obj"

\* the value of a key is absent, null or, for a string, empty
IsMissing(j) == j.t \in {"absent", "null"} \/ j = Str(<<>>)

\* the value the document gives to a key meets the contract of the key
Acceptable(j, key, prefixes) ==
  CASE key \in HexKeys -> WellFormedHex(j, Mandated(key), prefixes)
    [] key \in ObjectKeys -> j.t = "obj"
    [] key \in SequenceKeys -> NoNullEntry(j)
    [] key = OptionalKey -> j.t \in {"absent", "null"} \/ NoNullEntry(j)
    [] OTHER -> j.t = "arr" /\ \A i \in 1..Len(j.v) :
                                 WellFormedHex(j.v[i], Mandated(key), prefixes)

\* the prefixes the code strips
Stripped == {Prefix0x}

\* the positions, in declaration order, of the keys that do not meet the contract
Faulty(m) == {i \in 1..Len(Keys) : ~Acceptable(m[Keys[i]], Keys[i], Stripped)}

\* the position in declaration order of the key an error is about
ErrorPosition(e) == CHOOSE i \in 1..Len(Keys) : Keys[i] = e.field

Claimed == kind \in {"BlindedBeaconBlockBody", "SignedBeaconBlock"}

\* receiver r has run UnmarshalJSON on a document that parsed into the wire shape
Unpacked(r) ==
  /\ Claimed
  /\ calls[r] = <<"UnmarshalJSON">>
  /\ res[r] # InvalidJSON

Failed(r) == res[r] \notin {NotCalled, OK}

Prior(r) == Priors(kind)[r]

\* the field of a key is as it was before the call
Untouched(r, key) == obj[r][GoField[key]] = Prior(r)[GoField[key]]

\* every key declared before position i meets the contract
EarlierAcceptable(m, i) ==
  \A k \in 1..(i - 1) : Acceptable(m[Keys[k]], Keys[k], Stripped)

\* a string of hex digits, an even number of them, that is not n bytes long
WrongLength(j, n) ==
  /\ j.t = "str"
  /\ j.v # <<>>
  /\ LET h == WithoutPrefix(j.v, Stripped)
     IN  /\ Len(h) % 2 = 0
         /\ Len(h) # 2 * n
         /\ \A i \in 1..Len(h) : h[i] \in DOMAIN DigitTable

\* "0X" and then the hex text of exactly n bytes
UppercasePrefixed(j, n) ==
  /\ j.t = "str"
  /\ Len(j.v) >= 2
  /\ <<j.v[1], j.v[2]>> = Prefix0X
  /\ HexOfLength(SubSeq(j.v, 3, Len(j.v)), n)

\* the error is about the key at position i
FailedAt(r, i) == Failed(r) /\ res[r].field = Keys[i]

\* unpack went past the key at position i
Passed(r, i) == res[r] = OK \/ (Failed(r) /\ ErrorPosition(res[r]) > i)

PointerFields == {"ETH1Data", "SyncAggregate", "ExecutionPayloadHeader", "ExecutionRequests",
                  "Message"}

MandatorySliceFields ==
  {"ProposerSlashings", "AttesterSlashings", "Attestations", "Deposits", "VoluntaryExits"}

OptionalSliceFields == {"BLSToExecutionChanges"}

\* the elements of a slice in order; a nil slice has none
Elements(x) == IF IsNil(x) THEN <<>> ELSE x.v

\* an object that meets the contract: every nested object and every mandatory
\* sequence is there, and no sequence holds a nil entry
ValidObject(o) ==
  \A f \in DOMAIN o :
    /\ f \in PointerFields => ~IsNil(o[f])
    /\ f \in MandatorySliceFields => ~IsNil(o[f])
    /\ f \in MandatorySliceFields \cup OptionalSliceFields =>
         \A e \in 1..Len(Elements(o[f])) : ~IsNil(Elements(o[f])[e])

\* field-for-field equality: same byte arrays, same nested objects, same
\* sequences with the same elements in the same order
SameObject(o1, o2) ==
  /\ DOMAIN o1 = DOMAIN o2
  /\ \A f \in DOMAIN o1 :
       IF f \in MandatorySliceFields \cup OptionalSliceFields \cup {"BlobKZGCommitments"}
       THEN Elements(o1[f]) = Elements(o2[f])
       ELSE o1[f] = o2[f]

\* the positions of the null entries of an array
NullEntries(j) == {i \in 1..Len(j.v) : j.v[i].t = "null"}

-----------------------------------------------------------------------------
(* Claims *)

\* C1: when UnmarshalJSON of a BlindedBeaconBlockBody or SignedBeaconBlock returns
\* an error, the target object is exactly as it was before the call.
C1_FailureLeavesTargetUntouched ==
  \A r \in Receivers : (Claimed /\ Failed(r)) => obj[r] = Prior(r)

\* C9: unpack examines the keys in declaration order and stops at the first one
\* that does not meet the contract: the error is about that key, whatever the
\* kinds of the faulty keys, the fields of the later keys are not touched, and
\* a document without a faulty key is decoded.
C9_FirstFaultInDeclarationOrder ==
  \A r \in Receivers :
    Unpacked(r) =>
      LET bad == Faulty(text.doc.m)
      IN  IF bad = {}
          THEN res[r] = OK
          ELSE /\ Failed(r)
               /\ res[r].field = Keys[Min(bad)]
               /\ \A i \in (Min(bad) + 1)..Len(Keys) :
                    obj[r][GoField[Keys[i]]] = Prior(r)[GoField[Keys[i]]]

\* a sequence key and a later hex key are both faulty, and the sequence is reported
C9_Witness ==
  \E r \in Receivers :
    /\ Unpacked(r)
    /\ Failed(r)
    /\ Cardinality(Faulty(text.doc.m)) >= 2
    /\ Keys[Min(Faulty(text.doc.m))] \in SequenceKeys
    /\ \E i \in Faulty(text.doc.m) : Keys[i] = CommitmentsKey
    /\ res[r].field = Keys[Min(Faulty(text.doc.m))]

\* C10: two receivers with different prior contents that decode the same
\* document successfully end up equal in every field.
C10_SuccessDeterminesTarget ==
  \A r1, r2 \in Receivers :
    (/\ Claimed
     /\ calls[r1] = <<"UnmarshalJSON">>
     /\ calls[r2] = <<"UnmarshalJSON">>
     /\ res[r1] = OK)
    => (res[r2] = OK /\ obj[r1] = obj[r2])

\* both receivers decoded a body that omits bls_to_execution_changes, and
\* they differed in every field before
C10_Witness ==
  /\ kind = "BlindedBeaconBlockBody"
  /\ \A r \in Receivers : calls[r] = <<"UnmarshalJSON">> /\ res[r] = OK
  /\ text.doc.m.bls_to_execution_changes = Absent
  /\ \A f \in DOMAIN Prior(1) : Prior(1)[f] # Prior(2)[f]
  /\ obj[1] = obj[2]


\* C4: a mandatory key that is absent, null or (a string) empty makes UnmarshalJSON
\* fail and is never given a default; the error is the missing-field error of that
\* key when no key declared before it is faulty.  An empty sequence is accepted.
C4_MissingMandatoryFieldFails ==
  \A r \in Receivers :
    Unpacked(r) =>
      \A i \in 1..Len(Keys) :
        LET key == Keys[i]
            j == text.doc.m[key]
        IN  /\ (key # OptionalKey /\ IsMissing(j)) =>
                 /\ Failed(r)
                 /\ Untouched(r, key)
                 /\ EarlierAcceptable(text.doc.m, i) => res[r] = Missing(key)
            /\ (j = Arr(<<>>) /\ Failed(r)) => res[r].field # key

\* deposits is null: the error names it and the field keeps its earlier entries
C4_Witness ==
  /\ kind = "BlindedBeaconBlockBody"
  /\ Unpacked(2)
  /\ text.doc.m.deposits = Null
  /\ res[2] = Missing("deposits")
  /\ obj[2].Deposits = Slice(<<Ptr("old")>>)

\* C5: unmarshal succeeds only if every hex string decodes to exactly the mandated
\* length, and then the field holds exactly those bytes; a well-formed hex string
\* of another length makes it fail, with the length error of its key when nothing
\* before it is faulty, and is never truncated or padded into the fixed array.
C5_FixedLengthEnforced ==
  \A r \in Receivers :
    Unpacked(r) =>
      \A i \in 1..Len(Keys) :
        LET key == Keys[i]
            j == text.doc.m[key]
            n == Mandated(key)
        IN  /\ key \in HexKeys =>
                 /\ res[r] = OK =>
                      /\ WellFormedHex(j, n, Stripped)
                      /\ obj[r][GoField[key]] = BytesOf(WithoutPrefix(j.v, Stripped))
                 /\ WrongLength(j, n) =>
                      /\ Failed(r)
                      /\ Untouched(r, key)
                      /\ EarlierAcceptable(text.doc.m, i) => res[r] = IncorrectLength(key)
            /\ key = CommitmentsKey =>
                 /\ res[r] = OK =>
                      /\ j.t = "arr"
                      /\ obj[r][GoField[key]].t = "slice"
                      /\ Len(obj[r][GoField[key]].v) = Len(j.v)
                      /\ \A e \in 1..Len(j.v) :
                           /\ WellFormedHex(j.v[e], n, Stripped)
                           /\ obj[r][GoField[key]].v[e] =
                                BytesOf(WithoutPrefix(j.v[e].v, Stripped))
                 /\ j.t = "arr" =>
                      \A e \in 1..Len(j.v) :
                        WrongLength(j.v[e], n) =>
                          /\ Failed(r)
                          /\ \/ Untouched(r, key)
                             \/ obj[r][GoField[key]].v[e] = Filled(n, 0)
                          /\ (/\ EarlierAcceptable(text.doc.m, i)
                              /\ \A d \in 1..Len(j.v) : ~IsMissing(j.v[d])
                              /\ \A d \in 1..(e - 1) : WellFormedHex(j.v[d], n, Stripped))
                             => res[r] = IncorrectLength(key)

\* a signature of 95 bytes is refused and the receiver keeps its 96 bytes
C5_Witness ==
  /\ kind = "SignedBeaconBlock"
  /\ Unpacked(2)
  /\ text.doc.m.signature.t = "str"
  /\ Len(WithoutPrefix(text.doc.m.signature.v, Stripped)) = 2 * (SignatureLength - 1)
  /\ res[2] = IncorrectLength("signature")
  /\ obj[2].Signature = Filled(SignatureLength, 17)

\* C6: a null entry in a sequence of a BlindedBeaconBlockBody makes unmarshal fail,
\* with the entry-missing error of that key and of the lowest null index when no
\* key declared before it is faulty; after a successful unmarshal no sequence of
\* the object holds a nil entry.
C6_NullEntryRejected ==
  \A r \in Receivers :
    (Unpacked(r) /\ kind = "BlindedBeaconBlockBody") =>
      \A i \in 1..Len(Keys) :
        LET key == Keys[i]
            j == text.doc.m[key]
        IN  (key \in SequenceKeys \cup {OptionalKey}) =>
              /\ (j.t = "arr" /\ NullEntries(j) # {}) =>
                   /\ Failed(r)
                   /\ Untouched(r, key)
                   /\ EarlierAcceptable(text.doc.m, i) =>
                        res[r] = EntryMissing(key, Min(NullEntries(j)) - 1)
              /\ res[r] = OK =>
                   /\ obj[r][GoField[key]].t = "slice"
                   /\ \A e \in 1..Len(obj[r][GoField[key]].v) :
                        ~IsNil(obj[r][GoField[key]].v[e])

\* attester_slashings has null at the indices 1 and 2: index 1 is reported
C6_Witness ==
  /\ kind = "BlindedBeaconBlockBody"
  /\ Unpacked(1)
  /\ text.doc.m.attester_slashings = NullSecond
  /\ res[1] = EntryMissing("attester_slashings", 1)

\* C7: a body document without bls_to_execution_changes (or with null) that is
\* otherwise valid is decoded, with the field an empty non-nil sequence; a
\* document without any other key is never decoded.
C7_OnlyDefaultedField ==
  \A r \in Receivers :
    (Unpacked(r) /\ kind = "BlindedBeaconBlockBody") =>
      LET m == text.doc.m
      IN  /\ (/\ m[OptionalKey].t \in {"absent", "null"}
              /\ \A i \in 1..Len(Keys) : Acceptable(m[Keys[i]], Keys[i], Stripped))
             => (res[r] = OK /\ obj[r].BLSToExecutionChanges = Slice(<<>>))
          /\ \A i \in 1..Len(Keys) :
               (Keys[i] # OptionalKey /\ m[Keys[i]].t \in {"absent", "null"}) => Failed(r)

\* the receiver that held an entry decodes a document without the key
C7_Witness ==
  /\ kind = "BlindedBeaconBlockBody"
  /\ Unpacked(2)
  /\ text.doc.m.bls_to_execution_changes = Absent
  /\ res[2] = OK
  /\ Prior(2).BLSToExecutionChanges = Slice(<<Ptr("old")>>)
  /\ obj[2].BLSToExecutionChanges = Slice(<<>>)


\* C2: for every valid BlindedBeaconBlockBody or SignedBeaconBlock o,
\* UnmarshalJSON(MarshalJSON(o)) succeeds and yields an object field-for-field
\* equal to o, whatever the receiver held before.
C2_RoundTrip ==
  \A r \in Receivers :
    (/\ Claimed
     /\ given # None
     /\ calls[r] = <<"UnmarshalJSON">>
     /\ ValidObject(given.o))
    => (res[r] = OK /\ SameObject(obj[r], given.o))

\* a body with three attester slashings and no bls changes, decoded into the
\* receiver that held other contents
C2_Witness ==
  /\ kind = "BlindedBeaconBlockBody"
  /\ given # None
  /\ ValidObject(given.o)
  /\ given.o.AttesterSlashings = Slice(<<Ptr("B"), Ptr("A"), Ptr("C")>>)
  /\ given.o.BLSToExecutionChanges = Nil
  /\ calls[2] = <<"UnmarshalJSON">>
  /\ res[2] = OK
  /\ obj[2].AttesterSlashings = given.o.AttesterSlashings
  /\ obj[2].RANDAOReveal = given.o.RANDAOReveal

\* C3 as stated: a hex string of the right length is decoded whether it has
\* no prefix, the prefix 0x or the prefix 0X.
C3_AnyCasePrefixAccepted ==
  \A r \in Receivers :
    Unpacked(r) =>
      \A i \in 1..Len(Keys) :
        LET key == Keys[i]
            j == text.doc.m[key]
            n == Mandated(key)
        IN  /\ (key \in HexKeys /\ WellFormedHex(j, n, {Prefix0x, Prefix0X}))
                 => ~FailedAt(r, i)
            /\ (/\ key = CommitmentsKey
                /\ j.t = "arr"
                /\ \A e \in 1..Len(j.v) : WellFormedHex(j.v[e], n, {Prefix0x, Prefix0X}))
                 => ~FailedAt(r, i)

\* C3 amended: a hex string of the right length is decoded to the same bytes with
\* no prefix and with the prefix 0x; with the prefix 0X it is refused as an
\* invalid value.
C3_LowercasePrefixOptional ==
  \A r \in Receivers :
    Unpacked(r) =>
      \A i \in 1..Len(Keys) :
        LET key == Keys[i]
            j == text.doc.m[key]
            n == Mandated(key)
        IN  /\ key \in HexKeys =>
                 /\ WellFormedHex(j, n, Stripped) =>
                      /\ ~FailedAt(r, i)
                      /\ Passed(r, i) =>
                           obj[r][GoField[key]] = BytesOf(WithoutPrefix(j.v, Stripped))
                 /\ UppercasePrefixed(j, n) =>
                      /\ Failed(r)
                      /\ Untouched(r, key)
                      /\ EarlierAcceptable(text.doc.m, i) => res[r] = InvalidValue(key)
            /\ (key = CommitmentsKey /\ j.t = "arr") =>
                 /\ (\A e \in 1..Len(j.v) : WellFormedHex(j.v[e], n, Stripped)) =>
                      /\ ~FailedAt(r, i)
                      /\ Passed(r, i) =>
                           obj[r][GoField[key]] =
                             Slice([e \in 1..Len(j.v) |->
                                      BytesOf(WithoutPrefix(j.v[e].v, Stripped))])
                 /\ \A e \in 1..Len(j.v) :
                      UppercasePrefixed(j.v[e], n) =>
                        /\ Failed(r)
                        /\ (/\ EarlierAcceptable(text.doc.m, i)
                            /\ \A d \in 1..Len(j.v) : ~IsMissing(j.v[d])
                            /\ \A d \in 1..(e - 1) : WellFormedHex(j.v[d], n, Stripped))
                           => res[r] = InvalidValue(key)

\* the RANDAO reveal has no prefix and is decoded; the second commitment has
\* the prefix 0X and is refused
C3_Witness ==
  /\ kind = "BlindedBeaconBlockBody"
  /\ Unpacked(1)
  /\ text.doc.m.randao_reveal = Str(Digits(SignatureLength, "a", "b"))
  /\ obj[1].RANDAOReveal = Filled(SignatureLength, 171)
  /\ text.doc.m.blob_kzg_commitments.t = "arr"
  /\ Len(text.doc.m.blob_kzg_commitments.v) = 2
  /\ UppercasePrefixed(text.doc.m.blob_kzg_commitments.v[2], KZGCommitmentLength)
  /\ res[1] = InvalidValue("blob_kzg_commitments")

====
